---- MODULE Spec2Model ----
(***************************************************************************)
(* A model of the albumshare application: the like/unlike server actions,  *)
(* the album listing page (search pattern, release-date range, like        *)
(* aggregation), the date-filter and search-bar URL rewriting, and the     *)
(* OAuth callback handler.                                                 *)
(*                                                                         *)
(* Text (a search string, a URL parameter value, an ISO date, an album     *)
(* title) is a sequence of one-character strings, so that trimming,        *)
(* escaping, formatting and pattern matching are computed character by     *)
(* character as the code and the store compute them.                       *)
(***************************************************************************)
EXTENDS Integers, Sequences, FiniteSets, TLC

VARIABLES
  likes,     \* the likes collection: (user_id, album_id) |-> number of rows
  req,       \* like/unlike server-action invocations in flight
  url,       \* the browser's query string: a sequence of <<key, value>>
  event,     \* the last client-side control event that rewrote the URL
  page,      \* the last render of the album listing page
  cb,        \* OAuth callback requests in flight
  profiles   \* the profiles collection: id |-> sequence of stored emails

vars == <<likes, req, url, event, page, cb, profiles>>

(***************************************************************************)
(* Bounds                                                                  *)
(***************************************************************************)
MaxReq == 2        \* concurrent like/unlike invocations
MaxCallbacks == 2  \* concurrent OAuth callback requests

(***************************************************************************)
(* Text and optional values                                                *)
(***************************************************************************)
\* An optional value (null, undefined or NaN, or a value) is a sequence of
\* length 0 or 1.
Null == <<>>
Some(v) == <<v>>

DigitChars == <<"0", "1", "2", "3", "4", "5", "6", "7", "8", "9">>

IsDigit(c) == \E i \in 1..10 : DigitChars[i] = c

DigitValue(c) == (CHOOSE i \in 1..10 : DigitChars[i] = c) - 1

RECURSIVE DropLeadingSpaces(_)
DropLeadingSpaces(s) ==
  IF s # <<>> /\ Head(s) = " " THEN DropLeadingSpaces(Tail(s)) ELSE s

RECURSIVE DropTrailingSpaces(_)
DropTrailingSpaces(s) ==
  IF s # <<>> /\ s[Len(s)] = " "
  THEN DropTrailingSpaces(SubSeq(s, 1, Len(s) - 1)) ELSE s

\* String.prototype.trim
Trim(s) == DropTrailingSpaces(DropLeadingSpaces(s))

\* the decimal digits of n >= 0
RECURSIVE Decimal(_)
Decimal(n) ==
  IF n < 10 THEN <<DigitChars[n + 1]>>
  ELSE Decimal(n \div 10) \o <<DigitChars[(n % 10) + 1]>>

\* String(n), and `${n}` in a template, of an integer
String(n) == IF n < 0 THEN <<"-">> \o Decimal(-n) ELSE Decimal(n)

\* String.prototype.padStart(width, "0")
RECURSIVE PadStart0(_, _)
PadStart0(s, width) ==
  IF Len(s) >= width THEN s ELSE PadStart0(<<"0">> \o s, width)

RECURSIVE DigitsValue(_)
DigitsValue(s) ==
  IF s = <<>> THEN 0
  ELSE 10 * DigitsValue(SubSeq(s, 1, Len(s) - 1)) + DigitValue(s[Len(s)])

AllDigits(s) == s # <<>> /\ \A i \in 1..Len(s) : IsDigit(s[i])

\* Number(s) of a trimmed, non-empty string of digits (with an optional sign);
\* any other text the model feeds it is NaN (Null)
Number(s) ==
  IF AllDigits(s) THEN Some(DigitsValue(s))
  ELSE IF s # <<>> /\ Head(s) = "-" /\ AllDigits(Tail(s))
       THEN Some(0 - DigitsValue(Tail(s)))
       ELSE Null

\* a number, null or NaN used as a condition: null, NaN and 0 are falsy
Truthy(n) == n # Null /\ n[1] # 0

\* String.prototype.replaceAll(c, "\\" + c)
RECURSIVE BackslashPrefix(_, _)
BackslashPrefix(s, c) ==
  IF s = <<>> THEN <<>>
  ELSE (IF Head(s) = c THEN <<"\\", c>> ELSE <<Head(s)>>)
       \o BackslashPrefix(Tail(s), c)

(***************************************************************************)
(* The query string: URLSearchParams and the page's searchParams           *)
(***************************************************************************)
\* URLSearchParams.delete(key): every pair of that key goes
ParamsDelete(params, key) == SelectSeq(params, LAMBDA p : p[1] # key)

HasParam(params, key) == \E i \in 1..Len(params) : params[i][1] = key

\* URLSearchParams.set(key, value): the first pair of that key takes the
\* value and the others go; without one, the pair is appended
ParamsSet(params, key, value) ==
  IF HasParam(params, key)
  THEN LET first == CHOOSE i \in 1..Len(params) :
                      /\ params[i][1] = key
                      /\ \A j \in 1..(i - 1) : params[j][1] # key
       IN SubSeq(params, 1, first - 1) \o <<<<key, value>>>>
          \o ParamsDelete(SubSeq(params, first + 1, Len(params)), key)
  ELSE Append(params, <<key, value>>)

\* the values of a key, in order
ParamValues(params, key) ==
  LET ps == SelectSeq(params, LAMBDA p : p[1] = key)
  IN [i \in 1..Len(ps) |-> ps[i][2]]

\* parseFirst(sp?.key): the first value of the key, or "", trimmed
parseFirst(params, key) ==
  LET vs == ParamValues(params, key)
  IN Trim(IF vs = <<>> THEN <<>> ELSE vs[1])

\* selectedYear and selectedMonth: yearStr ? Number(yearStr) : null
selectedNumber(params, key) ==
  LET str == parseFirst(params, key)
  IN IF str # <<>> THEN Number(str) ELSE Null

(***************************************************************************)
(* Users and sessions                                                      *)
(***************************************************************************)
Users == {"u1", "u2"}
\* data.user of supabase.auth.getUser() when the request carries no session
NoUser == "null"
Sessions == Users \cup {NoUser}

(***************************************************************************)
(* The likes collection and the store's operations on it                   *)
(***************************************************************************)
\* album ids the like/unlike forms are submitted with
LikeAlbumIds == {1, 2}

LikeKeys == Users \X LikeAlbumIds

EmptyLikes == [k \in LikeKeys |-> 0]

\* unique (user_id, album_id): the store rejects a second row for a pair with
\* SQLSTATE 23505 and leaves the table as it was; `fault` is a failure of the
\* store for any other reason (it leaves the table as it was, too).
StoreInsert(tbl, user_id, album_id, fault) ==
  IF fault THEN [table |-> tbl, error |-> "other"]
  ELSE IF tbl[<<user_id, album_id>>] >= 1
       THEN [table |-> tbl, error |-> "23505"]
       ELSE [table |-> [tbl EXCEPT ![<<user_id, album_id>>] = @ + 1],
             error |-> "none"]

\* a faulty variant of the delete's filter: the user_id condition is dropped
DeleteFilterAlbumOnly(row, user_id, album_id) ==
  row[2] = album_id

\* .eq("album_id", albumId).eq("user_id", user.id)
DeleteFilter(row, user_id, album_id) ==
  row[2] = album_id /\ row[1] = user_id

\* delete every row the filter selects; no row selected is no error
StoreDelete(tbl, user_id, album_id, fault) ==
  IF fault THEN [table |-> tbl, error |-> "other"]
  ELSE [table |-> [k \in DOMAIN tbl |->
                     IF DeleteFilter(k, user_id, album_id) THEN 0 ELSE tbl[k]],
        error |-> "none"]

(***************************************************************************)
(* The server actions likeAlbum and unlikeAlbum                            *)
(***************************************************************************)
Requests == 1..MaxReq

\* op, user, album: the invocation; pc: where it stands; resp: the store's
\* error code for its insert or delete; error: what the action threw;
\* matched: the rows for (user, album) the store held when the call arrived
IdleReq == [op |-> "none", user |-> NoUser, album |-> 0, pc |-> "idle",
            resp |-> "none", error |-> "none", revalidated |-> FALSE,
            matched |-> 0]

\* a faulty variant of the user check: every caller passes
SignedInAlways(user) == TRUE

\* if (!user) throw new Error("Not signed in")
SignedIn(user) == user # NoUser

\* a faulty variant of likeAlbum's error check: every store error is thrown
LikeThrowsAny(code) == code # "none"

\* if (error && error.code !== "23505") throw
LikeThrows(code) == code # "none" /\ code # "23505"

\* a faulty variant of unlikeAlbum's tail: the listing is not revalidated
UnlikeRevalidatesNever(code) == FALSE

\* if (error) throw new Error(error.message)
UnlikeThrows(code) == code # "none"

\* revalidatePath("/albums") is reached when nothing was thrown
LikeRevalidates(code) == ~LikeThrows(code)

UnlikeRevalidates(code) == ~UnlikeThrows(code)

\* createSupabaseServerClient, auth.getUser and the user check, of either
\* action: an unauthenticated call throws before any store call is issued
ActionAuth(r, op, user, albumId) ==
  /\ req[r].pc = "idle"
  /\ req' = [req EXCEPT ![r] =
       IF SignedIn(user)
       THEN [IdleReq EXCEPT !.op = op, !.user = user, !.album = albumId,
                            !.pc = "store"]
       ELSE [IdleReq EXCEPT !.op = op, !.user = user, !.album = albumId,
                            !.pc = "done", !.error = "Not signed in"]]
  /\ UNCHANGED likes

\* likeAlbum from the insert on: insert, error check, revalidatePath
likeAlbumInsert(r, fault) ==
  /\ req[r].pc = "store" /\ req[r].op = "like"
  /\ LET res == StoreInsert(likes, req[r].user, req[r].album, fault)
     IN /\ likes' = res.table
        /\ req' = [req EXCEPT ![r].pc = "done",
                              ![r].matched = likes[<<req[r].user, req[r].album>>],
                              ![r].resp = res.error,
                              ![r].error = IF LikeThrows(res.error)
                                           THEN "store" ELSE "none",
                              ![r].revalidated = LikeRevalidates(res.error)]

\* unlikeAlbum from the delete on: delete, error check, revalidatePath
unlikeAlbumDelete(r, fault) ==
  /\ req[r].pc = "store" /\ req[r].op = "unlike"
  /\ LET res == StoreDelete(likes, req[r].user, req[r].album, fault)
     IN /\ likes' = res.table
        /\ req' = [req EXCEPT ![r].pc = "done",
                              ![r].matched = likes[<<req[r].user, req[r].album>>],
                              ![r].resp = res.error,
                              ![r].error = IF UnlikeThrows(res.error)
                                           THEN "store" ELSE "none",
                              ![r].revalidated = UnlikeRevalidates(res.error)]

likeAlbum(r) ==
  /\ \/ \E user \in Sessions, albumId \in LikeAlbumIds :
          ActionAuth(r, "like", user, albumId)
     \/ \E fault \in BOOLEAN : likeAlbumInsert(r, fault)
  /\ UNCHANGED <<url, event, page, cb, profiles>>

unlikeAlbum(r) ==
  /\ \/ \E user \in Sessions, albumId \in LikeAlbumIds :
          ActionAuth(r, "unlike", user, albumId)
     \/ \E fault \in BOOLEAN : unlikeAlbumDelete(r, fault)
  /\ UNCHANGED <<url, event, page, cb, profiles>>

\* the caller has received the outcome; the slot is free for the next call
ActionReturn(r) ==
  /\ req[r].pc = "done"
  /\ req' = [req EXCEPT ![r] = IdleReq]
  /\ UNCHANGED <<likes, url, event, page, cb, profiles>>

\* no render yet (the page is loading)
NoPage == [state |-> "none"]
\* no control has been used yet
NoEvent == [kind |-> "none", value |-> <<>>]

Init ==
  /\ likes = EmptyLikes
  /\ req = [r \in Requests |-> IdleReq]
  /\ url = <<>>
  /\ event = NoEvent
  /\ page = NoPage
  /\ cb = <<>>
  /\ profiles = <<>>

Next ==
  \E r \in Requests :
    \/ likeAlbum(r)
    \/ unlikeAlbum(r)
    \/ ActionReturn(r)

Spec == Init /\ [][Next]_vars

(***************************************************************************)
(* Claims about likeAlbum and unlikeAlbum (checked under Spec)             *)
(***************************************************************************)
\* request r issues its store call in this step and the store answers it
\* (with success or, for an insert, the uniqueness rejection)
StoreStep(r, op) ==
  /\ req[r].pc = "store" /\ req[r].op = op
  /\ req'[r].pc = "done" /\ req'[r].resp # "other"

\* C1: whatever likeAlbum invocations of signed-in users run, one after
\* another or interleaved, the likes collection never holds more than one row
\* for a (user, album) pair; every likeAlbum whose insert the store accepted
\* or rejected as a duplicate (23505) leaves exactly one row for its pair and
\* throws nothing.
C1_LikeIdempotent ==
  [][/\ \A k \in LikeKeys : likes'[k] <= 1
     /\ \A r \in Requests :
          StoreStep(r, "like") =>
            /\ likes'[<<req[r].user, req[r].album>>] = 1
            /\ req'[r].error = "none"]_vars

\* two likeAlbum calls of one user for one album have both completed, the
\* later one rejected by the uniqueness constraint, and one row is held
C1_Witness ==
  \E r1, r2 \in Requests :
    /\ r1 # r2
    /\ req[r1].pc = "done" /\ req[r1].op = "like"
    /\ req[r2].pc = "done" /\ req[r2].op = "like"
    /\ req[r1].user = req[r2].user /\ req[r1].album = req[r2].album
    /\ req[r1].resp = "none" /\ req[r2].resp = "23505"
    /\ req[r1].error = "none" /\ req[r2].error = "none"
    /\ likes[<<req[r1].user, req[r1].album>>] = 1

\* C2: a likeAlbum or unlikeAlbum call without an authenticated user ends with
\* the error "Not signed in", issues no insert or delete, and leaves the
\* likes collection as it was.
C2_UnauthenticatedFails ==
  [][\A r \in Requests :
       (req'[r] # req[r] /\ req'[r].op # "none" /\ req'[r].user = NoUser) =>
         /\ req'[r].pc = "done"
         /\ req'[r].error = "Not signed in"
         /\ req'[r].resp = "none"
         /\ likes' = likes]_vars

\* an unauthenticated unlikeAlbum of a liked album has failed, the row is kept
C2_Witness ==
  \E r \in Requests, u \in Users :
    /\ req[r].pc = "done" /\ req[r].op = "unlike" /\ req[r].user = NoUser
    /\ req[r].error = "Not signed in"
    /\ likes[<<u, req[r].album>>] = 1

\* C3: unlikeAlbum by a signed-in user of an album that user has not liked
\* throws nothing, leaves no row for the pair, changes nothing in the likes
\* collection (so a second call leaves what the first left) and revalidates
\* the listing; every completed unlikeAlbum leaves no row for its pair.
C3_UnlikeIdempotent ==
  [][\A r \in Requests :
       StoreStep(r, "unlike") =>
         /\ likes'[<<req[r].user, req[r].album>>] = 0
         /\ likes[<<req[r].user, req[r].album>>] = 0 =>
              /\ likes' = likes
              /\ req'[r].error = "none"
              /\ req'[r].revalidated]_vars

\* two unlikeAlbum calls of one user for one album have both completed
\* without error, the later one finding no row, while the other user's like
\* of the same album is still held
C3_Witness ==
  \E r1, r2 \in Requests, u \in Users :
    /\ r1 # r2
    /\ req[r1].pc = "done" /\ req[r1].op = "unlike"
    /\ req[r2].pc = "done" /\ req[r2].op = "unlike"
    /\ req[r1].user = req[r2].user /\ req[r1].album = req[r2].album
    /\ req[r1].matched = 1 /\ req[r2].matched = 0
    /\ req[r2].resp = "none" /\ req[r2].error = "none" /\ req[r2].revalidated

\* request r, a likeAlbum or unlikeAlbum call of a signed-in user, takes a
\* step: its user check, or its store call with whatever outcome
CallStep(r) ==
  /\ req'[r] # req[r]
  /\ req'[r].op \in {"like", "unlike"}
  /\ req'[r].user \in Users

\* C12: a step of likeAlbum(a) or unlikeAlbum(a) called by signed-in user u,
\* whether the call ends normally or throws, changes at most the number of
\* rows held for the pair (u, a): the rows of every other user, the rows of u
\* for every other album, and the profiles collection are after the step what
\* they were before it. (The albums collection is the catalogue Albums, which
\* no action writes.)
C12_LikeFrame ==
  [][\A r \in Requests :
       CallStep(r) =>
         /\ \A k \in LikeKeys :
              k # <<req'[r].user, req'[r].album>> => likes'[k] = likes[k]
         /\ profiles' = profiles]_vars

\* an unlikeAlbum has removed its user's row for its album and a second call
\* has thrown on a store failure, while the other user's like of that album
\* and the same user's like of the other album are both still held
C12_Witness ==
  \E r1, r2 \in Requests, u \in Users, a \in LikeAlbumIds :
    /\ r1 # r2
    /\ req[r1].pc = "done" /\ req[r1].op = "unlike"
    /\ req[r1].matched = 1 /\ req[r1].error = "none"
    /\ req[r2].pc = "done" /\ req[r2].user \in Users
    /\ req[r2].resp = "other" /\ req[r2].error = "store"
    /\ u # req[r1].user /\ a # req[r1].album
    /\ likes[<<req[r1].user, req[r1].album>>] = 0
    /\ likes[<<u, req[r1].album>>] = 1
    /\ likes[<<req[r1].user, a>>] = 1
    /\ u # req[r2].user
    /\ likes[<<u, req[r2].album>>] = 1
    /\ likes[<<req[r2].user, req[r2].album>>] = 0

(***************************************************************************)
(* The albums collection and the release-bucket view                       *)
(***************************************************************************)
Date(y, m, d) == [y |-> y, m |-> m, d |-> d]

\* the albums table: id, album (title), artist, release_date; a null column
\* is Null
Albums == <<
  [id |-> 1, album |-> Some(<<"a", "%">>),       artist |-> Some(<<"b">>),
   release_date |-> Some(Date(2024, 3, 1))],
  [id |-> 2, album |-> Some(<<"A", "b">>),       artist |-> Null,
   release_date |-> Some(Date(2024, 3, 31))],
  [id |-> 3, album |-> Some(<<"a", "\\", "b">>), artist |-> Some(<<"_">>),
   release_date |-> Some(Date(2024, 4, 1))],
  [id |-> 4, album |-> Null,                     artist |-> Some(<<"a", "b">>),
   release_date |-> Some(Date(2024, 12, 31))],
  [id |-> 5, album |-> Some(<<"b", "_">>),       artist |-> Some(<<"A">>),
   release_date |-> Some(Date(2025, 1, 1))],
  [id |-> 6, album |-> Some(<<"b", "a">>),       artist |-> Some(<<"a">>),
   release_date |-> Some(Date(1950, 3, 10))],
  [id |-> 7, album |-> Some(<<"a">>),            artist |-> Some(<<"b">>),
   release_date |-> Null] >>

AlbumIds == {Albums[i].id : i \in 1..Len(Albums)}

AlbumOf(id) == Albums[CHOOSE i \in 1..Len(Albums) : Albums[i].id = id]

\* the view album_release_buckets: the distinct (year, month) of the release
\* dates
Buckets ==
  {[year |-> Albums[i].release_date[1].y, month |-> Albums[i].release_date[1].m] :
     i \in {j \in 1..Len(Albums) : Albums[j].release_date # Null}}

\* years = Array.from(new Set(bucketRows.map((b) => b.year)))
years == {b.year : b \in Buckets}

\* monthsForYear = selectedYear ? buckets.filter(b => b.year === selectedYear) : []
monthsForYear(selectedYear) ==
  IF Truthy(selectedYear) THEN {b \in Buckets : b.year = selectedYear[1]} ELSE {}

(***************************************************************************)
(* Dates: Date.UTC, toISOString, and the store's reading of a date literal *)
(***************************************************************************)
\* Date.UTC(year, monthIndex, day): a year 0..99 is taken as 1900 + year, and
\* a month index outside 0..11 carries into the year
DateUTC(year, monthIndex, day) ==
  LET yr == IF 0 <= year /\ year <= 99 THEN 1900 + year ELSE year
  IN Date(yr + (monthIndex \div 12), (monthIndex % 12) + 1, day)

\* Date.prototype.toISOString: YYYY-MM-DDTHH:mm:ss.sssZ, the year with a sign
\* and six digits outside 0..9999
toISOString(date) ==
  LET yearPart == IF 0 <= date.y /\ date.y <= 9999
                  THEN PadStart0(Decimal(date.y), 4)
                  ELSE IF date.y < 0
                       THEN <<"-">> \o PadStart0(Decimal(0 - date.y), 6)
                       ELSE <<"+">> \o PadStart0(Decimal(date.y), 6)
  IN yearPart \o <<"-">> \o PadStart0(Decimal(date.m), 2)
     \o <<"-">> \o PadStart0(Decimal(date.d), 2)
     \o <<"T", "0", "0", ":", "0", "0", ":", "0", "0", ".", "0", "0", "0", "Z">>

\* String.prototype.slice(0, n)
SliceTo(s, n) == SubSeq(s, 1, IF Len(s) < n THEN Len(s) ELSE n)

monthRangeUTC(year, month) ==
  [startISO |-> SliceTo(toISOString(DateUTC(year, month - 1, 1)), 10),
   endISO |-> SliceTo(toISOString(DateUTC(year, month, 1)), 10)]

\* `${selectedYear}-01-01` and `${selectedYear + 1}-01-01`
yearRange(year) ==
  [startISO |-> String(year) \o <<"-", "0", "1", "-", "0", "1">>,
   endISO |-> String(year + 1) \o <<"-", "0", "1", "-", "0", "1">>]

\* The store reads a date literal <year>-MM-DD whose year has at least three
\* digits (a shorter first field is not read as a year, and no other form
\* reaches it from this page); anything else is an error of the query (Null).
ParseDate(s) ==
  LET n == Len(s)
  IN IF /\ n >= 9
        /\ s[n - 5] = "-" /\ s[n - 2] = "-"
        /\ AllDigits(SubSeq(s, 1, n - 6))
        /\ AllDigits(SubSeq(s, n - 4, n - 3))
        /\ AllDigits(SubSeq(s, n - 1, n))
        /\ DigitsValue(SubSeq(s, n - 4, n - 3)) \in 1..12
        /\ DigitsValue(SubSeq(s, n - 1, n)) \in 1..31
     THEN Some(Date(DigitsValue(SubSeq(s, 1, n - 6)),
                    DigitsValue(SubSeq(s, n - 4, n - 3)),
                    DigitsValue(SubSeq(s, n - 1, n))))
     ELSE Null

DateKey(date) == date.y * 10000 + date.m * 100 + date.d

(***************************************************************************)
(* The store's ILIKE                                                       *)
(***************************************************************************)
\* lower-casing over the letters the model uses
Lower(c) == IF c = "A" THEN "a" ELSE IF c = "B" THEN "b" ELSE c

LowerAll(s) == [i \in 1..Len(s) |-> Lower(s[i])]

\* LIKE: % matches any run of characters, _ any one character, and a
\* backslash makes the character after it stand for itself
RECURSIVE Like(_, _)
Like(pattern, str) ==
  IF pattern = <<>> THEN str = <<>>
  ELSE IF Head(pattern) = "%"
       THEN Like(Tail(pattern), str) \/ (str # <<>> /\ Like(pattern, Tail(str)))
  ELSE IF Head(pattern) = "_"
       THEN str # <<>> /\ Like(Tail(pattern), Tail(str))
  ELSE IF Head(pattern) = "\\"
       THEN /\ Len(pattern) >= 2 /\ str # <<>>
            /\ Head(str) = pattern[2]
            /\ Like(Tail(Tail(pattern)), Tail(str))
  ELSE str # <<>> /\ Head(str) = Head(pattern) /\ Like(Tail(pattern), Tail(str))

\* column ILIKE pattern; a null column matches nothing
ILike(pattern, column) ==
  column # Null /\ Like(LowerAll(pattern), LowerAll(column[1]))

(***************************************************************************)
(* The listing page: query construction                                    *)
(***************************************************************************)
RowCap == 200
qMin == 1

\* q.replaceAll("%", "\\%").replaceAll("_", "\\_")
escape(q) == BackslashPrefix(BackslashPrefix(q, "%"), "_")

\* the or-filter album.ilike.%<escaped>%,artist.ilike.%<escaped>%: the
\* pattern both columns are matched against
ilikePattern(q) == <<"%">> \o escape(q) \o <<"%">>

\* the albums query as built from q, selectedYear and selectedMonth: the
\* ilike pattern (Null: no text filter) and the release_date bounds (Null: no
\* bound)
AlbumsQuery(q, selectedYear, selectedMonth) ==
  LET pattern == IF Len(q) >= qMin THEN Some(ilikePattern(q)) ELSE Null
      range == IF Truthy(selectedYear) /\ Truthy(selectedMonth)
               THEN Some(monthRangeUTC(selectedYear[1], selectedMonth[1]))
               ELSE IF Truthy(selectedYear) /\ ~Truthy(selectedMonth)
                    THEN Some(yearRange(selectedYear[1]))
                    ELSE Null
  IN [pattern |-> pattern,
      gte |-> IF range = Null THEN Null ELSE Some(range[1].startISO),
      lt |-> IF range = Null THEN Null ELSE Some(range[1].endISO)]

\* release_date descending (nulls first, as the store orders them), ties by id
RECURSIVE OrderByReleaseDesc(_)
OrderByReleaseDesc(ids) ==
  IF ids = {} THEN <<>>
  ELSE LET Before(a, b) ==
             LET da == AlbumOf(a).release_date
                 db == AlbumOf(b).release_date
             IN IF da = Null /\ db = Null THEN a <= b
                ELSE IF da = Null THEN TRUE
                ELSE IF db = Null THEN FALSE
                ELSE IF DateKey(da[1]) = DateKey(db[1]) THEN a <= b
                ELSE DateKey(da[1]) > DateKey(db[1])
           first == CHOOSE a \in ids : \A b \in ids : Before(a, b)
       IN <<first>> \o OrderByReleaseDesc(ids \ {first})

\* the store's answer to the albums query: an error (a failure of the store,
\* or a bound that is no date), or the ids of the rows selected, ordered and
\* cut at the limit
StoreSelectAlbums(query, fault) ==
  LET gte == IF query.gte = Null THEN Null ELSE ParseDate(query.gte[1])
      lt == IF query.lt = Null THEN Null ELSE ParseDate(query.lt[1])
      Selected(a) ==
        /\ query.pattern # Null =>
             \/ ILike(query.pattern[1], a.album)
             \/ ILike(query.pattern[1], a.artist)
        /\ query.gte # Null =>
             a.release_date # Null /\ DateKey(a.release_date[1]) >= DateKey(gte[1])
        /\ query.lt # Null =>
             a.release_date # Null /\ DateKey(a.release_date[1]) < DateKey(lt[1])
  IN IF \/ fault
        \/ (query.gte # Null /\ gte = Null)
        \/ (query.lt # Null /\ lt = Null)
     THEN [error |-> TRUE, data |-> <<>>]
     ELSE [error |-> FALSE,
           data |-> SliceTo(OrderByReleaseDesc({id \in AlbumIds : Selected(AlbumOf(id))}),
                            RowCap)]

(***************************************************************************)
(* The listing page: like aggregation and the render                       *)
(***************************************************************************)
\* the rows of the likes table, one per row held
RECURSIVE LikeRows(_, _)
LikeRows(tbl, keys) ==
  IF keys = {} THEN <<>>
  ELSE LET k == CHOOSE x \in keys : TRUE
       IN [i \in 1..tbl[k] |-> [user_id |-> k[1], album_id |-> k[2]]]
          \o LikeRows(tbl, keys \ {k})

\* a faulty variant of the scope of the likes queries: every row is selected
InAlbumIdsAlways(album_id, albumIds) == TRUE

\* .in("album_id", albumIds)
InAlbumIds(album_id, albumIds) == \E i \in 1..Len(albumIds) : albumIds[i] = album_id

\* likeCounts: for each row, likeCounts.set(id, (likeCounts.get(id) ?? 0) + 1)
RECURSIVE CountLikes(_)
CountLikes(rows) ==
  IF rows = <<>> THEN [id \in {} |-> 0]
  ELSE LET counts == CountLikes(SubSeq(rows, 1, Len(rows) - 1))
           id == rows[Len(rows)].album_id
       IN [x \in DOMAIN counts \cup {id} |->
             IF x = id
             THEN (IF id \in DOMAIN counts THEN counts[id] ELSE 0) + 1
             ELSE counts[x]]

\* likeCounts.get(a.id) ?? 0
shownCount(likeCounts, id) == IF id \in DOMAIN likeCounts THEN likeCounts[id] ELSE 0

\* a faulty variant of the error handling: a failed likes-count query aborts the
\* render too
AbortsRenderOnLikes(query) == query \in {"buckets", "albums", "likes"}

\* the page returns the error state when the buckets query or the albums
\* query fails; a failed likes query is logged only
AbortsRender(query) == query \in {"buckets", "albums"}

\* what a render has returned: the list, or one of the two error states
Rendered == {"list", "bucketsError", "albumsError"}

\* state: the query the render waits for, or what it returned; kind: which
\* listing page renders; failed: the queries the store failed; likeCounts and
\* myLiked: what the two likes queries gave; shown: the count beside each album
BlankPage == [state |-> "none", kind |-> "none", user |-> NoUser, failed |-> {},
              q |-> <<>>, selectedYear |-> Null, selectedMonth |-> Null,
              query |-> [pattern |-> Null, gte |-> Null, lt |-> Null],
              albums |-> <<>>, likeCounts |-> [id \in {} |-> 0],
              myLiked |-> {}, shown |-> [id \in {} |-> 0]]

\* from("likes").select("album_id").in("album_id", albumIds): the rows the
\* table holds at the moment of the query; data is null when it fails
SelectLikes(tbl, albumIds, fault) ==
  IF fault THEN [error |-> TRUE, data |-> <<>>]
  ELSE [error |-> FALSE,
        data |-> SelectSeq(LikeRows(tbl, DOMAIN tbl),
                           LAMBDA row : InAlbumIds(row.album_id, albumIds))]

\* from("likes").select("album_id").eq("user_id", user.id).in("album_id", albumIds)
SelectMine(tbl, user, albumIds, fault) ==
  IF fault THEN [error |-> TRUE, data |-> <<>>]
  ELSE [error |-> FALSE,
        data |-> SelectSeq(LikeRows(tbl, DOMAIN tbl),
                           LAMBDA row : row.user_id = user
                                        /\ InAlbumIds(row.album_id, albumIds))]

\* the earlier page's from("likes").select("album_id"): every row
SelectLikesAll(tbl, fault) ==
  IF fault THEN [error |-> TRUE, data |-> <<>>]
  ELSE [error |-> FALSE, data |-> LikeRows(tbl, DOMAIN tbl)]

\* the earlier page's from("likes").select("album_id").eq("user_id", user.id)
SelectMineAll(tbl, user, fault) ==
  IF fault THEN [error |-> TRUE, data |-> <<>>]
  ELSE [error |-> FALSE,
        data |-> SelectSeq(LikeRows(tbl, DOMAIN tbl),
                           LAMBDA row : row.user_id = user)]

\* new Set((mine ?? []).map((r) => r.album_id))
LikedSet(mine) == {mine[i].album_id : i \in 1..Len(mine)}

\* the list returned: each album with likeCounts.get(a.id) ?? 0
Listed(p) ==
  [p EXCEPT !.state = "list",
            !.shown = [id \in {p.albums[i] : i \in 1..Len(p.albums)} |->
                         shownCount(p.likeCounts, id)]]

\* the render records that the store failed a query
Failed(p, query, error) ==
  [p EXCEPT !.failed = IF error THEN @ \cup {query} ELSE @]

(***************************************************************************)
(* Query strings the browser is sent to                                    *)
(***************************************************************************)
QInputs == {<<"%">>, <<"_">>, <<"\\">>, <<"a", "B">>, <<" ", "b", " ">>}
YearInputs == {<<"2", "0", "2", "4">>, <<"5", "0">>, <<"9", "9", "9", "9">>,
               <<"0">>, <<"x">>}
MonthInputs == {<<"3">>, <<"1", "2">>, <<"1", "3">>, <<"0">>}

Param(key, value) == IF value = Null THEN <<>> ELSE <<<<key, value[1]>>>>

Optional(S) == {Null} \cup {Some(v) : v \in S}

\* /albums?q=..&year=..&month=.., each parameter present or not, and two
\* query strings that repeat a key
Urls ==
  {Param("q", q) \o Param("year", y) \o Param("month", m) :
     q \in Optional(QInputs), y \in Optional(YearInputs), m \in Optional(MonthInputs)}
  \cup {<<<<"month", <<"3">>>>, <<"year", <<"2", "0", "2", "4">>>>, <<"month", <<"1", "2">>>>>>,
        <<<<"year", <<"5", "0">>>>, <<"q", <<"%">>>>, <<"year", <<"2", "0", "2", "4">>>>>>}

\* the browser loads a query string (a link, a bookmark, a typed address)
Navigate(u) ==
  /\ url' = u
  /\ event' = [kind |-> "navigate", value |-> <<>>]
  /\ page' = NoPage
  /\ UNCHANGED <<likes, req, cb, profiles>>

\* AlbumsPage up to its first query: searchParams, createSupabaseServerClient
\* and auth.getUser
AlbumsPageGetUser(user) ==
  /\ page = NoPage
  /\ page' = [BlankPage EXCEPT !.state = "buckets", !.kind = "filtered",
                               !.user = user,
                               !.q = parseFirst(url, "q"),
                               !.selectedYear = selectedNumber(url, "year"),
                               !.selectedMonth = selectedNumber(url, "month")]

\* the album_release_buckets query and its error return
AlbumsPageBuckets(fault) ==
  /\ page.state = "buckets" /\ page.kind = "filtered"
  /\ page' = IF fault /\ AbortsRender("buckets")
             THEN [Failed(page, "buckets", fault) EXCEPT !.state = "bucketsError"]
             ELSE [Failed(page, "buckets", fault) EXCEPT !.state = "albums"]

\* the albums query, built from q and the selected year and month, and its
\* error return
AlbumsPageAlbums(fault) ==
  /\ page.state = "albums" /\ page.kind = "filtered"
  /\ LET query == AlbumsQuery(page.q, page.selectedYear, page.selectedMonth)
         res == StoreSelectAlbums(query, fault)
         asked == [Failed(page, "albums", res.error) EXCEPT !.query = query]
     IN page' = IF res.error /\ AbortsRender("albums")
                THEN [asked EXCEPT !.state = "albumsError"]
                ELSE [asked EXCEPT !.state = "likes", !.albums = res.data]

\* the likes-count query over the table as it is now, and likeCounts; the
\* query for the user's likes follows if (user && albumIds.length)
AlbumsPageLikes(fault) ==
  /\ page.state = "likes" /\ page.kind = "filtered"
  /\ LET res == SelectLikes(likes, page.albums, fault)
         counted == [Failed(page, "likes", res.error) EXCEPT
                       !.likeCounts = CountLikes(res.data)]
     IN page' = IF res.error /\ AbortsRender("likes")
                THEN [counted EXCEPT !.state = "albumsError"]
                ELSE IF page.user # NoUser /\ Len(page.albums) # 0
                THEN [counted EXCEPT !.state = "mine"]
                ELSE Listed(counted)

\* the query for the user's likes over the table as it is now, myLiked, and
\* the list returned
AlbumsPageMine(fault) ==
  /\ page.state = "mine" /\ page.kind = "filtered"
  /\ LET res == SelectMine(likes, page.user, page.albums, fault)
     IN page' = Listed([Failed(page, "mine", res.error) EXCEPT
                          !.myLiked = LikedSet(res.data)])

\* the server renders the page for the request's query string, one query
\* after another
AlbumsPage ==
  /\ \/ \E user \in Sessions : AlbumsPageGetUser(user)
     \/ \E fault \in BOOLEAN : AlbumsPageBuckets(fault)
     \/ \E fault \in BOOLEAN : AlbumsPageAlbums(fault)
     \/ \E fault \in BOOLEAN : AlbumsPageLikes(fault)
     \/ \E fault \in BOOLEAN : AlbumsPageMine(fault)
  /\ UNCHANGED <<likes, req, url, event, cb, profiles>>

\* the earlier AlbumsPage (app/albums/page.tsx), which reads no query string:
\* createSupabaseServerClient and auth.getUser
AlbumsPageAllGetUser(user) ==
  /\ page = NoPage
  /\ page' = [BlankPage EXCEPT !.state = "albums", !.kind = "all",
                               !.user = user]

\* its albums query: every album, no filter and no limit
AlbumsPageAllAlbums(fault) ==
  /\ page.state = "albums" /\ page.kind = "all"
  /\ page' = IF fault /\ AbortsRender("albums")
             THEN [Failed(page, "albums", fault) EXCEPT !.state = "albumsError"]
             ELSE [Failed(page, "albums", fault) EXCEPT
                     !.state = "likes",
                     !.albums = IF fault THEN <<>>
                                ELSE OrderByReleaseDesc(AlbumIds)]

\* its likes-count query, not restricted to the albums displayed; the query
\* for the user's likes follows if (user)
AlbumsPageAllLikes(fault) ==
  /\ page.state = "likes" /\ page.kind = "all"
  /\ LET res == SelectLikesAll(likes, fault)
         counted == [Failed(page, "likes", res.error) EXCEPT
                       !.likeCounts = CountLikes(res.data)]
     IN page' = IF res.error /\ AbortsRender("likes")
                THEN [counted EXCEPT !.state = "albumsError"]
                ELSE IF page.user # NoUser
                THEN [counted EXCEPT !.state = "mine"]
                ELSE Listed(counted)

\* its query for the user's likes, and the list returned
AlbumsPageAllMine(fault) ==
  /\ page.state = "mine" /\ page.kind = "all"
  /\ LET res == SelectMineAll(likes, page.user, fault)
     IN page' = Listed([Failed(page, "mine", res.error) EXCEPT
                          !.myLiked = LikedSet(res.data)])

AlbumsPageAll ==
  /\ \/ \E user \in Sessions : AlbumsPageAllGetUser(user)
     \/ \E fault \in BOOLEAN : AlbumsPageAllAlbums(fault)
     \/ \E fault \in BOOLEAN : AlbumsPageAllLikes(fault)
     \/ \E fault \in BOOLEAN : AlbumsPageAllMine(fault)
  /\ UNCHANGED <<likes, req, url, event, cb, profiles>>

\* the first AlbumsPage, without sessions and likes: one query for every
\* album, then the list (no counts, no like forms) or the error state
AlbumsPagePlain(fault) ==
  /\ page = NoPage
  /\ page' = IF fault
             THEN [Failed(BlankPage, "albums", fault) EXCEPT
                     !.state = "albumsError", !.kind = "plain"]
             ELSE [BlankPage EXCEPT !.state = "list", !.kind = "plain",
                                    !.albums = OrderByReleaseDesc(AlbumIds)]
  /\ UNCHANGED <<likes, req, url, event, cb, profiles>>

\* while a render waits for a query, the store takes the insert of a
\* likeAlbum call of a signed-in user (a second row for a pair is rejected)
likeAlbumCommits(user, albumId) ==
  /\ likes' = StoreInsert(likes, user, albumId, FALSE).table
  /\ UNCHANGED <<req, url, event, page, cb, profiles>>

\* or the delete of an unlikeAlbum call
unlikeAlbumCommits(user, albumId) ==
  /\ likes' = StoreDelete(likes, user, albumId, FALSE).table
  /\ UNCHANGED <<req, url, event, page, cb, profiles>>

\* the browser requests the same query string again
Reload ==
  /\ page.state \in Rendered
  /\ page' = NoPage
  /\ UNCHANGED <<likes, req, url, event, cb, profiles>>

\* the page is requested with any of the query strings, over any likes table
InitPage ==
  /\ likes \in [LikeKeys -> {0, 1}]
  /\ req = <<>>
  /\ url \in Urls
  /\ event = NoEvent
  /\ page = NoPage
  /\ cb = <<>>
  /\ profiles = <<>>

NextPage ==
  \/ AlbumsPage
  \/ AlbumsPageAll
  \/ \E fault \in BOOLEAN : AlbumsPagePlain(fault)
  \/ \E user \in Users, albumId \in LikeAlbumIds : likeAlbumCommits(user, albumId)
  \/ \E user \in Users, albumId \in LikeAlbumIds : unlikeAlbumCommits(user, albumId)
  \/ Reload

SpecPage == InitPage /\ [][NextPage]_vars

(***************************************************************************)
(* Claims about the listing page (checked under SpecPage)                  *)
(***************************************************************************)
Displayed == {page.albums[i] : i \in 1..Len(page.albums)}

\* the rows the likes table holds for an album
RowsFor(id) ==
  IF id \in LikeAlbumIds THEN Cardinality({u \in Users : likes[<<u, id>>] >= 1}) ELSE 0

\* the albums the render displays after the step
DisplayedNext == {page'.albums[i] : i \in 1..Len(page'.albums)}

\* C4: at every point of every render, the like-count mapping and the user's
\* liked-set hold only ids of albums the render displays; the count a
\* successful likes-count query gives an album is the number of Like rows the
\* table holds for that album at that moment, and the liked-set a successful
\* query for the user's likes gives is the displayed albums that user has a
\* row for at that moment.
C4_LikesScoped ==
  [][page'.state # "none" =>
       /\ DOMAIN page'.likeCounts \subseteq DisplayedNext
       /\ page'.myLiked \subseteq DisplayedNext
       /\ (page.state = "likes" /\ page' # page /\ "likes" \notin page'.failed) =>
            \A id \in DisplayedNext :
              shownCount(page'.likeCounts, id) = RowsFor(id)
       /\ (page.state = "mine" /\ page' # page /\ "mine" \notin page'.failed) =>
            page'.myLiked =
              {id \in DisplayedNext \cap LikeAlbumIds : likes[<<page.user, id>>] >= 1}]_vars

\* a render that displays album 2 and not album 1, while the user and another
\* user like album 1 and album 2: only album 2 is counted and liked
C4_Witness ==
  /\ page.state = "list" /\ page.user = "u1"
  /\ 2 \in Displayed /\ 1 \notin Displayed
  /\ \A k \in LikeKeys : likes[k] = 1
  /\ DOMAIN page.likeCounts = {2} /\ page.likeCounts[2] = 2
  /\ page.myLiked = {2}

InRange(id, lo, hi) ==
  LET d == AlbumOf(id).release_date
  IN d # Null /\ DateKey(d[1]) >= DateKey(lo) /\ DateKey(d[1]) < DateKey(hi)

FollowingMonth(y, m) == IF m = 12 THEN Date(y + 1, 1, 1) ELSE Date(y, m + 1, 1)

\* C7: the release-date restriction of a render is, for a selected year Y and
\* month M in 1..12, the interval from the first day of month M of Y to the
\* first day of the following month (January of Y+1 after December); for a
\* year Y with no month, from Y-01-01 to (Y+1)-01-01; with neither, none; and
\* every album displayed has its release date inside the interval.
C7_DateRestriction ==
  page.state \in {"list", "albumsError"} =>
    LET Y == page.selectedYear
        M == page.selectedMonth
        gte == page.query.gte
        lt == page.query.lt
    IN CASE Truthy(Y) /\ M # Null /\ M[1] \in 1..12 ->
              /\ gte # Null /\ lt # Null
              /\ ParseDate(gte[1]) = Some(Date(Y[1], M[1], 1))
              /\ ParseDate(lt[1]) = Some(FollowingMonth(Y[1], M[1]))
              /\ page.state = "list"
                   => \A id \in Displayed :
                        InRange(id, Date(Y[1], M[1], 1), FollowingMonth(Y[1], M[1]))
           [] Truthy(Y) /\ M = Null ->
              /\ gte = Some(String(Y[1]) \o <<"-", "0", "1", "-", "0", "1">>)
              /\ lt = Some(String(Y[1] + 1) \o <<"-", "0", "1", "-", "0", "1">>)
              /\ page.state = "list"
                   => \A id \in Displayed :
                        InRange(id, Date(Y[1], 1, 1), Date(Y[1] + 1, 1, 1))
           [] Y = Null /\ M = Null -> gte = Null /\ lt = Null
           [] OTHER -> TRUE

\* q occurs in the column as a substring, letter case aside
ContainsLiteral(column, q) ==
  /\ column # Null
  /\ \E i \in 1..(Len(column[1]) - Len(q) + 1) :
       LowerAll(SubSeq(column[1], i, i + Len(q) - 1)) = LowerAll(q)

\* C8: for a non-empty trimmed q, the pattern is q with each % and _
\* backslash-prefixed between two %, and an album is displayed only if its
\* title or artist contains q as a literal substring.
C8_LiteralSearch ==
  (page.state = "list" /\ page.q # <<>>) =>
    /\ page.query.pattern =
         Some(<<"%">> \o BackslashPrefix(BackslashPrefix(page.q, "%"), "_") \o <<"%">>)
    /\ \A id \in Displayed :
         \/ ContainsLiteral(AlbumOf(id).album, page.q)
         \/ ContainsLiteral(AlbumOf(id).artist, page.q)

\* C10: when the likes-count query fails and the albums query succeeds, the
\* render is the list of the albums selected, every one with like count zero.
C10_LikeFailureZeroCounts ==
  LET res == StoreSelectAlbums(
               AlbumsQuery(page.q, page.selectedYear, page.selectedMonth), FALSE)
  IN (page.state \in Rendered /\ "likes" \in page.failed /\ ~res.error) =>
       /\ page.state = "list"
       /\ page.albums = res.data
       /\ \A id \in Displayed : page.shown[id] = 0

\* a list rendered after the likes-count query failed: album 2 is displayed
\* with count zero although the likes table holds rows for it
C10_Witness ==
  /\ page.state = "list" /\ "likes" \in page.failed
  /\ 2 \in Displayed /\ RowsFor(2) = 2
  /\ page.shown[2] = 0

(***************************************************************************)
(* The date filter and the search bar: rewriting the query string          *)
(***************************************************************************)
\* push(next): only the keys present in `next` are touched; "" deletes
push(params, next) ==
  LET afterYear ==
        IF next.year # Null
        THEN (IF next.year[1] = <<>> THEN ParamsDelete(params, "year")
              ELSE ParamsSet(params, "year", next.year[1]))
        ELSE params
  IN IF next.month # Null
     THEN (IF next.month[1] = <<>> THEN ParamsDelete(afterYear, "month")
           ELSE ParamsSet(afterYear, "month", next.month[1]))
     ELSE afterYear

\* a faulty variant of the Year selector's onChange: the month key is left out
yearOnChangeKeepMonth(y) == [year |-> Some(y), month |-> Null]

\* the Year selector's onChange: push({ year: y, month: "" })
yearOnChange(y) == [year |-> Some(y), month |-> Some(<<>>)]

\* the Month selector's onChange: push({ month: e.target.value })
monthOnChange(m) == [year |-> Null, month |-> Some(m)]

\* the options of the Year selector: "All years" and the bucket years
YearOptions == {<<>>} \cup {String(y) : y \in years}

\* the options of the Month selector: "All months" and the selected year's
\* bucket months
MonthOptions(selectedYear) ==
  {<<>>} \cup {String(b.month) : b \in monthsForYear(selectedYear)}

\* SearchBar's nextUrl: q set to the trimmed text, or removed when empty
nextUrl(params, text) ==
  IF Trim(text) # <<>> THEN ParamsSet(params, "q", Trim(text))
  ELSE ParamsDelete(params, "q")

ChangeYear(y) ==
  /\ url' = push(url, yearOnChange(y))
  /\ event' = [kind |-> "year", value |-> y]
  /\ page' = NoPage
  /\ UNCHANGED <<likes, req, cb, profiles>>

\* the Month selector is disabled until a year is selected
ChangeMonth(m) ==
  /\ Truthy(selectedNumber(url, "year"))
  /\ m \in MonthOptions(selectedNumber(url, "year"))
  /\ url' = push(url, monthOnChange(m))
  /\ event' = [kind |-> "month", value |-> m]
  /\ page' = NoPage
  /\ UNCHANGED <<likes, req, cb, profiles>>

\* SearchBar submit() with the text typed
SearchSubmit(text) ==
  /\ url' = nextUrl(url, text)
  /\ event' = [kind |-> "search", value |-> text]
  /\ page' = NoPage
  /\ UNCHANGED <<likes, req, cb, profiles>>

\* SearchBar clear()
SearchClear ==
  /\ url' = ParamsDelete(url, "q")
  /\ event' = [kind |-> "clear", value |-> <<>>]
  /\ page' = NoPage
  /\ UNCHANGED <<likes, req, cb, profiles>>

InitFilter ==
  /\ likes = EmptyLikes
  /\ req = <<>>
  /\ url = <<>>
  /\ event = NoEvent
  /\ page = NoPage
  /\ cb = <<>>
  /\ profiles = <<>>

NextFilter ==
  \/ \E u \in Urls : Navigate(u)
  \/ \E y \in YearOptions : ChangeYear(y)
  \/ \E m \in {<<>>} \cup {String(i) : i \in 1..12} : ChangeMonth(m)
  \/ \E text \in QInputs \cup {<<>>} : SearchSubmit(text)
  \/ SearchClear

SpecFilter == InitFilter /\ [][NextFilter]_vars

(***************************************************************************)
(* Claims about the date filter (checked under SpecFilter)                 *)
(***************************************************************************)
\* C9: after the Year selector changed to any option, whatever the query
\* string was, the query string has no month parameter, and its year
\* parameter is the option chosen, or is gone when "All years" was chosen.
C9_YearClearsMonth ==
  event.kind = "year" =>
    /\ ~HasParam(url, "month")
    /\ IF event.value = <<>> THEN ~HasParam(url, "year")
       ELSE ParamValues(url, "year") = <<event.value>>

\* the Year selector was changed from a query string that held a month (and
\* a search text, which is kept)
C9_Witness ==
  /\ event.kind = "year" /\ event.value = <<"2", "0", "2", "5">>
  /\ ParamValues(url, "q") = <<<<"%">>>>
  /\ ParamValues(url, "year") = <<<<"2", "0", "2", "5">>>>
  /\ ~HasParam(url, "month")

(***************************************************************************)
(* The OAuth callback handler, GET /auth/callback                          *)
(***************************************************************************)
Callbacks == 1..MaxCallbacks

Emails == {"a@x", "b@x"}

\* searchParams.get("code"): null, the empty string, or a code
Codes == {Null, Some(<<>>), Some(<<"c">>)}

\* a faulty variant of the upsert: a plain insert into a table without the
\* primary key, which adds a row whether or not the id already has one
StoreInsertProfile(tbl, id, email, fault) ==
  IF fault THEN [table |-> tbl, error |-> "other"]
  ELSE [table |-> [tbl EXCEPT ![id] = Append(@, email)], error |-> "none"]

\* profiles has primary key id: upsert updates the row of that id, or inserts
\* one; `fault` is a failure of the store, which leaves the table as it was
StoreUpsertProfile(tbl, id, email, fault) ==
  IF fault THEN [table |-> tbl, error |-> "other"]
  ELSE [table |-> [tbl EXCEPT ![id] = <<email>>], error |-> "none"]

\* code: the request's code parameter; calls: the calls made to the identity
\* provider and the store, each with its result; redirect: the response
IdleCb == [pc |-> "idle", code |-> Null, user |-> NoUser, email |-> "",
           calls |-> <<>>, redirect |-> ""]

\* a faulty variant of the code check: only a missing parameter counts as no code
HasCodeNotNull(code) == code # Null

\* if (!code): null and the empty string are both falsy
HasCode(code) == code # Null /\ code[1] # <<>>

\* a faulty variant of the exchange check: the handler goes on after a failure
ExchangeFailedNever(err) == FALSE

\* if (exchangeErr)
ExchangeFailed(err) == err # "none"

Called(c, call, result) == Append(cb[c].calls, [call |-> call, result |-> result])

\* new URL(request.url), searchParams.get("code"), the no-code redirect
GETStart(c, code) ==
  /\ cb[c].pc = "idle"
  /\ cb' = [cb EXCEPT ![c] =
       IF HasCode(code)
       THEN [IdleCb EXCEPT !.code = code, !.pc = "exchange"]
       ELSE [IdleCb EXCEPT !.code = code, !.pc = "done",
                           !.redirect = "/albums"]]
  /\ UNCHANGED profiles

\* supabase.auth.exchangeCodeForSession(code)
GETExchange(c, err) ==
  /\ cb[c].pc = "exchange"
  /\ cb' = [cb EXCEPT ![c] =
       IF ExchangeFailed(err)
       THEN [@ EXCEPT !.calls = Called(c, "exchangeCodeForSession", err),
                      !.pc = "done",
                      !.redirect = "/login?error=exchange_failed"]
       ELSE [@ EXCEPT !.calls = Called(c, "exchangeCodeForSession", err),
                      !.pc = "getUser"]]
  /\ UNCHANGED profiles

\* supabase.auth.getUser(): an error, no user, or the user with their email
GETGetUser(c, err, user, email) ==
  /\ cb[c].pc = "getUser"
  /\ cb' = [cb EXCEPT ![c] =
       IF err # "none"
       THEN [@ EXCEPT !.calls = Called(c, "getUser", err),
                      !.pc = "done",
                      !.redirect = "/login?error=get_user_failed"]
       ELSE IF user = NoUser
       THEN [@ EXCEPT !.calls = Called(c, "getUser", "no_user"),
                      !.pc = "done",
                      !.redirect = "/login?error=no_user"]
       ELSE [@ EXCEPT !.calls = Called(c, "getUser", "none"),
                      !.user = user, !.email = email,
                      !.pc = "upsert"]]
  /\ UNCHANGED profiles

\* supabase.from("profiles").upsert({id, email}) and the final redirect
GETUpsert(c, fault) ==
  /\ cb[c].pc = "upsert"
  /\ LET res == StoreUpsertProfile(profiles, cb[c].user, cb[c].email, fault)
     IN /\ profiles' = res.table
        /\ cb' = [cb EXCEPT ![c].calls = Called(c, "upsert", res.error),
                            ![c].pc = "done",
                            ![c].redirect =
                               IF res.error # "none"
                               THEN "/login?error=profile_upsert_failed"
                               ELSE "/albums"]

\* the response has been sent; the slot is free for the next request
GETReturn(c) ==
  /\ cb[c].pc = "done"
  /\ cb' = [cb EXCEPT ![c] = IdleCb]
  /\ UNCHANGED profiles

GET(c) ==
  /\ \/ \E code \in Codes : GETStart(c, code)
     \/ \E err \in {"none", "error"} : GETExchange(c, err)
     \/ \E err \in {"none", "error"}, user \in Sessions, email \in Emails :
          GETGetUser(c, err, user, email)
     \/ \E fault \in BOOLEAN : GETUpsert(c, fault)
     \/ GETReturn(c)
  /\ UNCHANGED <<likes, req, url, event, page>>

InitAuth ==
  /\ likes = EmptyLikes
  /\ req = <<>>
  /\ url = <<>>
  /\ event = NoEvent
  /\ page = NoPage
  /\ cb = [c \in Callbacks |-> IdleCb]
  /\ profiles = [u \in Users |-> <<>>]

NextAuth == \E c \in Callbacks : GET(c)

SpecAuth == InitAuth /\ [][NextAuth]_vars

(***************************************************************************)
(* Claims about the OAuth callback handler (checked under SpecAuth)        *)
(***************************************************************************)
\* a request without a code: the parameter is missing, or empty
NoCode == {Null, Some(<<>>)}

\* the steps of the handler, in order, each with the redirect of its failure
StepOrder == <<"exchangeCodeForSession", "getUser", "upsert">>

FailureRedirect(call, result) ==
  CASE call = "exchangeCodeForSession" -> "/login?error=exchange_failed"
    [] call = "getUser" /\ result = "no_user" -> "/login?error=no_user"
    [] call = "getUser" -> "/login?error=get_user_failed"
    [] call = "upsert" -> "/login?error=profile_upsert_failed"

\* C5: a callback request with a code calls exchange, getUser, upsert in that
\* order, each at most once and only after the earlier ones succeeded; once it
\* has answered, its redirect is the failure redirect of the one call that
\* failed, which is the last call it made, or /albums when all three calls
\* were made and succeeded.
C5_CallbackOrder ==
  \A c \in Callbacks :
    cb[c].code \notin NoCode =>
      LET calls == cb[c].calls
          n == Len(calls)
      IN /\ n <= 3
         /\ \A i \in 1..n : calls[i].call = StepOrder[i]
         /\ \A i \in 1..(n - 1) : calls[i].result = "none"
         /\ cb[c].pc = "done" =>
              /\ n >= 1
              /\ IF calls[n].result # "none"
                 THEN cb[c].redirect = FailureRedirect(calls[n].call, calls[n].result)
                 ELSE n = 3 /\ cb[c].redirect = "/albums"
         /\ cb[c].pc # "done" => cb[c].redirect = ""

\* a request whose exchange failed has stopped after that one call, beside a
\* request that made all three calls and failed at the upsert
C5_Witness ==
  \E c1, c2 \in Callbacks :
    /\ cb[c1].pc = "done" /\ cb[c1].redirect = "/login?error=exchange_failed"
    /\ Len(cb[c1].calls) = 1
    /\ cb[c2].pc = "done" /\ cb[c2].redirect = "/login?error=profile_upsert_failed"
    /\ Len(cb[c2].calls) = 3

\* C6: a callback request without a code (the parameter missing or empty)
\* answers with the redirect to /albums at once, calls neither the identity
\* provider nor the store, and leaves the profiles collection as it was.
C6_NoCodeNoCalls ==
  [][\A c \in Callbacks :
       (cb'[c] # cb[c] /\ cb'[c].pc # "idle" /\ cb'[c].code \in NoCode) =>
         /\ cb'[c].pc = "done"
         /\ cb'[c].redirect = "/albums"
         /\ cb'[c].calls = <<>>
         /\ profiles' = profiles]_vars

\* a request with an empty code parameter has been answered with /albums
C6_Witness ==
  \E c \in Callbacks :
    /\ cb[c].pc = "done" /\ cb[c].code = Some(<<>>)
    /\ cb[c].redirect = "/albums" /\ cb[c].calls = <<>>

\* request c issues its upsert in this step and is answered with /albums
UpsertSucceeds(c) ==
  /\ cb[c].pc = "upsert" /\ cb[c].code \notin NoCode
  /\ cb'[c].pc = "done" /\ cb'[c].redirect = "/albums"

\* C11: whatever callback requests run, one after another or interleaved, the
\* profiles collection never holds more than one row for a user id; a request
\* with a code that is answered with /albums leaves, for its authenticated
\* user, the one row holding that user's id and email, and leaves every other
\* user's rows as they were; when the row already held that id and email
\* (a repeated successful callback) the collection is left unchanged.
C11_ProfileUpsert ==
  [][/\ \A u \in Users : Len(profiles'[u]) <= 1
     /\ \A c \in Callbacks :
          UpsertSucceeds(c) =>
            /\ profiles'[cb[c].user] = <<cb[c].email>>
            /\ \A u \in Users \ {cb[c].user} : profiles'[u] = profiles[u]
            /\ profiles[cb[c].user] = <<cb[c].email>> => profiles' = profiles]_vars

\* two callbacks of one user with one email have both been answered with
\* /albums, and the collection holds that user's one row with that email
C11_Witness ==
  \E c1, c2 \in Callbacks :
    /\ c1 # c2
    /\ cb[c1].pc = "done" /\ cb[c1].redirect = "/albums"
    /\ cb[c2].pc = "done" /\ cb[c2].redirect = "/albums"
    /\ cb[c1].code \notin NoCode /\ cb[c2].code \notin NoCode
    /\ cb[c1].user = cb[c2].user /\ cb[c1].email = cb[c2].email
    /\ profiles[cb[c1].user] = <<cb[c1].email>>

====
